---- MODULE Spec2Model ----
(***************************************************************************)
(* Load / fetch / inject state machine of the <i-html> element            *)
(* (src/i-html.js, class IHTMLElement).                                    *)
(*                                                                         *)
(* One element instance is modelled.  Every `#load` call that gets past    *)
(* its early returns is an "attempt"; attempt k owns the k-th              *)
(* AbortController the element creates (controller 0 is the one of the     *)
(* field initialiser).  JavaScript's run-to-completion is kept: an action  *)
(* is one synchronous stretch of code between two suspension points        *)
(* (`await queueATask()`, `await fetch()`, `await response.text()`).       *)
(***************************************************************************)
EXTENDS Integers, Sequences, FiniteSets, TLC

(***************************************************************************)
(* Bounds of the model.                                                    *)
(***************************************************************************)
MaxAttempts == 2
MaxNodes == 2

Attempts == 1..MaxAttempts
Controllers == 0..MaxAttempts

(***************************************************************************)
(* URLs.  A URL reference is a record; origin "rel" is a relative          *)
(* reference, resolved against a base by `new URL(ref, base)`.             *)
(***************************************************************************)
NoURL == [origin |-> "none", path |-> ""]
PageURL == [origin |-> "page", path |-> "index"]
RefA == [origin |-> "rel", path |-> "a"]
RefB == [origin |-> "rel", path |-> "b"]
RefX == [origin |-> "other", path |-> "a"]
SrcValues == {RefA, RefB, RefX}

ResolveURL(ref, base) ==
  IF ref.origin = "rel" THEN [origin |-> base.origin, path |-> ref.path] ELSE ref

(***************************************************************************)
(* Media types: type "/" [prefix "+"] sub [";" params].  prefix "" means   *)
(* that the optional group `([^+]+\+)?` did not take part in the match     *)
(* (JavaScript: undefined); a matched group is never the empty string.     *)
(***************************************************************************)
NoMime == [type |-> "", prefix |-> "", sub |-> "", params |-> FALSE]
TextHtml == [type |-> "text", prefix |-> "", sub |-> "html", params |-> FALSE]
TextHtmlUtf8 == [type |-> "text", prefix |-> "", sub |-> "html", params |-> TRUE]
TextPlain == [type |-> "text", prefix |-> "", sub |-> "plain", params |-> FALSE]
ImageSvg == [type |-> "image", prefix |-> "svg+", sub |-> "xml", params |-> FALSE]
AppXml == [type |-> "application", prefix |-> "", sub |-> "xml", params |-> FALSE]
AppXhtml == [type |-> "application", prefix |-> "xhtml+", sub |-> "xml", params |-> FALSE]
TextCss == [type |-> "text", prefix |-> "", sub |-> "css", params |-> FALSE]
EventStream == [type |-> "text", prefix |-> "", sub |-> "event-stream", params |-> FALSE]
Wildcard == [type |-> "*", prefix |-> "", sub |-> "*", params |-> FALSE]

textMime(m) == m.type = "text" /\ m.sub = "plain"
htmlMime(m) == m.type = "text" /\ m.sub = "html"
svgMime(m) == m.type = "image" /\ m.prefix = "svg+" /\ m.sub = "xml"
xmlMime(m) == m.type = "application" /\ m.sub = "xml"
eventStreamMime(m) == m.type = "text" /\ m.sub = "event-stream"
wildcardMime(m) == m.type = "*" /\ m.sub = "*"

validAllow == {"refresh", "iframe", "i-html", "media", "script", "style", "cross-origin"}

\* DOMException.ABORT_ERR, the legacy code of an "AbortError" DOMException.
ABORT_ERR == 20
\* `e.code` of a rejection value; 0 stands for undefined (strings, TypeError).
ErrorCode(e) == IF e = "AbortError" THEN 20 ELSE 0

\* Number.MAX_SAFE_INTEGER is 2^53 - 1; the model checker's integers are 32
\* bits wide, so its largest integer stands for the ceiling.
MAX_SAFE_INTEGER == 2147483647

(***************************************************************************)
(* Inputs the environment can supply.                                      *)
(***************************************************************************)
AcceptValues == {NoMime, TextPlain, ImageSvg, Wildcard, EventStream}
LoadingValues == {"", "eager", "lazy", "none"}
InsertValues == {"", "append", "prepend"}
AllowValues == {<<>>, <<"refresh">>, <<"cross-origin">>, <<"refresh", "cross-origin">>, <<"*">>}
ContentTypes == {NoMime, TextHtmlUtf8, TextPlain, ImageSvg, AppXhtml, TextCss}

\* A refresh directive "<time>[; url=<url>]"; NoDirective is the empty string.
NoDirective == [time |-> -1, url |-> NoURL]
Directives == {[time |-> 0, url |-> NoURL], [time |-> 2, url |-> RefB],
               [time |-> MAX_SAFE_INTEGER, url |-> RefB]}

\* An element of a parsed response document: its tag, the tokens of its rel
\* attribute and at most one child element (NoElement = no child).
NoElement == [tag |-> "", rel |-> <<>>]
Element(tag, rel, inner) == [tag |-> tag, rel |-> rel, inner |-> inner]
Div == Element("div", <<>>, NoElement)
Svg == Element("svg", <<>>, NoElement)
\* the span that carries a text/plain response (lines 379-382)
Span == Element("span", <<>>, NoElement)
\* A document of n elements e; a document lists the elements that are
\* children of its body.
DocOf(n, e) == [i \in 1..n |-> e]
Bodies == [doc : {DocOf(n, Div) : n \in 0..MaxNodes},
           meta : {NoDirective, [time |-> 2, url |-> RefA]}]

VARIABLES
  srcAttr,         \* the src attribute (NoURL: absent)
  acceptAttr,      \* the accept attribute (NoMime: absent)
  loadingAttr,     \* the loading attribute ("": absent)
  insertAttr,      \* the insert attribute ("": absent)
  allow,           \* #allow, the cached token set
  allowAttr,       \* the allow attribute, as its space-separated tokens (<<>>: absent)
  connected,       \* isConnected
  listening,       \* the 'command' listener of connectedCallback is installed
  observing,       \* #observer observes the shadow root's span
  states,          \* #internals.states
  fetchController, \* #fetchController: index of the current controller
  fetchControllerSrc, \* #fetchController.src (only the current controller's is ever read)
  controllers,     \* the signal of every AbortController created: aborted, reason
  attempt,         \* one record per #load call that passed its early returns
  timers,          \* pending setTimeout callbacks, in the order they were set
  children,        \* the element's child nodes
  events,          \* the events the last step dispatched on the element, in order
  requests,        \* network requests handed to fetch() and not settled yet
  lastLoad         \* the #load call made by the last step, if it made one

vars == <<srcAttr, acceptAttr, loadingAttr, insertAttr, allow, allowAttr, connected, listening,
          observing, states, fetchController, fetchControllerSrc, controllers,
          attempt, timers,
          children, events, requests, lastLoad>>

NoLoad == [called |-> FALSE, src |-> NoURL, via |-> ""]
NoAttempt == [pc |-> "none", src |-> NoURL, signal |-> 0, error |-> "",
              settledBy |-> "", ct |-> NoMime, accept |-> NoMime,
              header |-> NoDirective, meta |-> NoDirective, mayCrossOrigin |-> FALSE,
              cancelled |-> FALSE, matched |-> -1]

Init ==
  /\ srcAttr = NoURL
  /\ acceptAttr = NoMime
  /\ loadingAttr = ""
  /\ insertAttr = ""
  /\ allow = {}
  /\ allowAttr = <<>>
  /\ connected = FALSE
  /\ listening = FALSE
  /\ observing = FALSE
  /\ states = {"waiting"}
  /\ fetchController = 0
  /\ fetchControllerSrc = NoURL
  /\ controllers = [c \in Controllers |-> [aborted |-> FALSE, reason |-> ""]]
  /\ attempt = [k \in Attempts |-> NoAttempt]
  /\ timers = <<>>
  /\ children = <<>>
  /\ events = <<>>
  /\ requests = {}
  /\ lastLoad = NoLoad

(***************************************************************************)
(* Attribute accessors.                                                    *)
(***************************************************************************)
\* get src: new URL(getAttribute('src') || '', window.location.href)
Src(attr) == IF attr = NoURL THEN PageURL ELSE ResolveURL(attr, PageURL)

\* get accept
Accept ==
  IF textMime(acceptAttr) \/ htmlMime(acceptAttr) \/ svgMime(acceptAttr)
     \/ xmlMime(acceptAttr) \/ wildcardMime(acceptAttr)
  THEN acceptAttr ELSE TextHtml

\* get loading, applied to an attribute value
LoadingLazyOrEager(attr) == IF attr = "lazy" THEN "lazy" ELSE "eager"

Loading(attr) == IF attr = "lazy" THEN "lazy" ELSE IF attr = "none" THEN "none" ELSE "eager"

\* get insert
Insert == IF insertAttr = "append" THEN "append"
          ELSE IF insertAttr = "prepend" THEN "prepend" ELSE "replace"

\* new Set(String(value).split(/ /g).filter(allow => validAllow.has(allow)))
ParseAllow(value) == {value[i] : i \in DOMAIN value} \cap validAllow

(***************************************************************************)
(* Timers.  An entry is a setTimeout callback: the continuation of an      *)
(* attempt after `await queueATask()` (delay 0) or the refresh callback    *)
(* (delay = seconds of the directive).  Callbacks of equal delay run in    *)
(* the order they were set; a callback with a positive delay runs only     *)
(* after every callback that was set before it.                            *)
(***************************************************************************)
Task(kind, k) == [kind |-> kind, attempt |-> k, url |-> NoURL, delay |-> 0]
RefreshTask(url, time) == [kind |-> "refresh", attempt |-> 0, url |-> url, delay |-> time]

RemoveAt(s, i) == [j \in 1..(Len(s) - 1) |-> IF j < i THEN s[j] ELSE s[j + 1]]
IsRefresh(e) == e.kind = "refresh"
IsTask(e) == e.kind # "refresh"

\* clearTimeout(this.#refreshTimer)
ClearRefresh(t) == SelectSeq(t, IsTask)
PendingRefresh(t) == SelectSeq(t, IsRefresh)
PendingTasks(t) == SelectSeq(t, IsTask)

CanFire(i) == \A j \in 1..(i - 1) : timers[j].delay > 0

\* #setupRefresh(refresh), applied to the timers t
SetupRefresh(t, refresh) ==
  IF "refresh" \notin allow THEN t
  ELSE LET time == IF refresh = NoDirective THEN -1 ELSE refresh.time
       IN IF time > -1 /\ time < MAX_SAFE_INTEGER
          THEN Append(ClearRefresh(t), RefreshTask(refresh.url, time))
          ELSE ClearRefresh(t)

(***************************************************************************)
(* AbortController.abort(reason): a no-op on an aborted controller; the    *)
(* default reason is an "AbortError" DOMException.                         *)
(***************************************************************************)
AbortOf(ctrls, c, reason) ==
  IF ctrls[c].aborted THEN ctrls
  ELSE [ctrls EXCEPT ![c].aborted = TRUE, ![c].reason = reason]

\* An aborted fetch has rejected but its continuation has not run yet.
Rejected(k) == attempt[k].pc \in {"fetch", "text"} /\ controllers[attempt[k].signal].aborted
NoMicrotask == \A k \in Attempts : ~Rejected(k)

(***************************************************************************)
(* #load(src), up to its first await (lines 271-289).                      *)
(***************************************************************************)
\* the policy check with the origin comparison inverted
PolicyErrorInverted(src) == "cross-origin" \notin allow /\ src.origin = PageURL.origin

\* line 274: the same-origin policy check
PolicyError(src) == "cross-origin" \notin allow /\ src.origin # PageURL.origin

\* the de-duplication with the test of the signal inverted
CoalescedAborted(src) ==
  controllers[fetchController].aborted /\ fetchControllerSrc = src

\* line 278: de-duplication against the current controller
Coalesced(src) ==
  ~controllers[fetchController].aborted /\ fetchControllerSrc = src

\* line 273: new URL(src || this.src, this.src || window.location.href)
LoadURL(explicit, attr) ==
  ResolveURL(IF explicit # NoURL THEN explicit ELSE Src(attr), Src(attr))

NoSrcByAccessor(explicit, attr) == explicit = NoURL /\ Src(attr) = NoURL

\* line 272: !src && !this.hasAttribute('src')
NoSrc(explicit, attr) == explicit = NoURL /\ attr = NoURL

Load(explicit, attr, t, via) ==
  LET src == LoadURL(explicit, attr)
      k == fetchController + 1
  IN IF NoSrc(explicit, attr)
     THEN /\ lastLoad' = [called |-> TRUE, src |-> NoURL, via |-> via]
          /\ timers' = t
          /\ UNCHANGED <<states, fetchController, fetchControllerSrc, controllers, attempt>>
     ELSE /\ lastLoad' = [called |-> TRUE, src |-> src, via |-> via]
          /\ IF PolicyError(src) \/ Coalesced(src)
             THEN /\ timers' = t
                  /\ UNCHANGED <<states, fetchController, fetchControllerSrc, controllers, attempt>>
             ELSE /\ k <= MaxAttempts
                  /\ timers' = Append(ClearRefresh(t), Task("task1", k))
                  /\ controllers' = AbortOf(controllers, fetchController, "AbortError")
                  /\ fetchController' = k
                  /\ fetchControllerSrc' = src
                  /\ states' = (states \ {"error", "waiting"}) \cup {"loading"}
                  /\ attempt' = [attempt EXCEPT ![k] =
                       [NoAttempt EXCEPT !.pc = "task1", !.src = src,
                                         !.mayCrossOrigin = "cross-origin" \in allow]]

\* this.#fetchController?.abort(reason) from a callback
Abort(reason) ==
  /\ controllers' = AbortOf(controllers, fetchController, reason)
  /\ lastLoad' = NoLoad
  /\ UNCHANGED <<states, fetchController, fetchControllerSrc, attempt>>

Idle ==
  /\ lastLoad' = NoLoad
  /\ UNCHANGED <<states, fetchController, fetchControllerSrc, controllers, attempt, timers>>

(***************************************************************************)
(* Callbacks of the element.                                               *)
(***************************************************************************)
\* attributeChangedCallback('src', ...): setAttribute or removeAttribute
SetSrc(v) ==
  /\ srcAttr' = v
  /\ IF connected /\ Loading(loadingAttr) = "eager" THEN Load(NoURL, v, timers, "src")
     ELSE IF Loading(loadingAttr) # "eager" THEN Abort("AbortError") /\ timers' = timers
     ELSE Idle
  /\ events' = <<>>
  /\ UNCHANGED <<acceptAttr, loadingAttr, insertAttr, allow, allowAttr, connected, listening,
                 observing, children, requests>>

\* attributeChangedCallback('accept', ...)
SetAccept(v) ==
  /\ acceptAttr' = v
  /\ IF connected /\ Loading(loadingAttr) = "eager" THEN Load(NoURL, srcAttr, timers, "accept")
     ELSE IF Loading(loadingAttr) # "eager" THEN Abort("AbortError") /\ timers' = timers
     ELSE Idle
  /\ events' = <<>>
  /\ UNCHANGED <<srcAttr, loadingAttr, insertAttr, allow, allowAttr, connected, listening,
                 observing, children, requests>>

\* attributeChangedCallback('loading', old, value)
SetLoading(v) ==
  /\ loadingAttr' = v
  /\ IF connected /\ loadingAttr # "eager" /\ v = "eager"
     THEN Load(NoURL, srcAttr, timers, "loading") /\ observing' = observing
     ELSE IF connected /\ v = "lazy" THEN Idle /\ observing' = TRUE
     ELSE Idle /\ observing' = observing
  /\ events' = <<>>
  /\ UNCHANGED <<srcAttr, acceptAttr, insertAttr, allow, allowAttr, connected, listening,
                 children, requests>>

\* the insert attribute is not observed
SetInsert(v) ==
  /\ insertAttr' = v
  /\ Idle
  /\ events' = <<>>
  /\ UNCHANGED <<srcAttr, acceptAttr, loadingAttr, allow, allowAttr, connected, listening,
                 observing, children, requests>>

\* attributeChangedCallback('allow', ...): setAttribute('allow', value)
SetAllowAttribute(v) ==
  /\ allowAttr' = v
  /\ allow' = ParseAllow(v)
  /\ Idle
  /\ events' = <<>>
  /\ UNCHANGED <<srcAttr, acceptAttr, loadingAttr, insertAttr, connected, listening,
                 observing, children, requests>>

\* set allow(value)
SetAllow(v) ==
  /\ allowAttr' = v
  /\ allow' = IF v = <<"*">> THEN validAllow ELSE ParseAllow(v)
  /\ Idle
  /\ events' = <<>>
  /\ UNCHANGED <<srcAttr, acceptAttr, loadingAttr, insertAttr, connected, listening,
                 observing, children, requests>>

\* connectedCallback
Connect ==
  /\ ~connected
  /\ connected' = TRUE
  /\ listening' = TRUE
  /\ observing' = TRUE
  /\ IF Loading(loadingAttr) = "eager" THEN Load(NoURL, srcAttr, timers, "connect") ELSE Idle
  /\ events' = <<>>
  /\ UNCHANGED <<srcAttr, acceptAttr, loadingAttr, insertAttr, allow, allowAttr, children, requests>>

\* disconnectedCallback
Disconnect ==
  /\ connected
  /\ connected' = FALSE
  /\ Abort("disconnected")
  /\ events' = <<>>
  /\ UNCHANGED <<srcAttr, acceptAttr, loadingAttr, insertAttr, allow, allowAttr, listening,
                 observing, timers, children, requests>>

\* handleEvent, command '--load'
CommandLoad ==
  /\ listening
  /\ Load(NoURL, srcAttr, timers, "command")
  /\ events' = <<>>
  /\ UNCHANGED <<srcAttr, acceptAttr, loadingAttr, insertAttr, allow, allowAttr, connected, listening,
                 observing, children, requests>>

\* handleEvent, command '--stop'
CommandStop ==
  /\ listening
  /\ timers' = ClearRefresh(timers)
  /\ Abort("stop")
  /\ events' = <<>>
  /\ UNCHANGED <<srcAttr, acceptAttr, loadingAttr, insertAttr, allow, allowAttr, connected, listening,
                 observing, children, requests>>

\* the #observer callback for an intersecting entry
Intersect ==
  /\ connected /\ observing /\ NoMicrotask
  /\ observing' = FALSE
  /\ IF Loading(loadingAttr) = "lazy" THEN Load(NoURL, srcAttr, timers, "lazy") ELSE Idle
  /\ events' = <<>>
  /\ UNCHANGED <<srcAttr, acceptAttr, loadingAttr, insertAttr, allow, allowAttr, connected, listening,
                 children, requests>>

\* the setTimeout callback of #setupRefresh: () => this.#load(url)
RefreshFire(i) ==
  /\ i \in DOMAIN timers /\ timers[i].kind = "refresh" /\ CanFire(i) /\ NoMicrotask
  /\ Load(timers[i].url, srcAttr, RemoveAt(timers, i), "refresh")
  /\ events' = <<>>
  /\ UNCHANGED <<srcAttr, acceptAttr, loadingAttr, insertAttr, allow, allowAttr, connected, listening,
                 observing, children, requests>>

(***************************************************************************)
(* The asynchronous part of #load.                                         *)
(***************************************************************************)
\* this.dispatchEvent(new Event(name)), made by attempt k
Dispatch(log, name, k) == Append(log, [name |-> name, attempt |-> k])

\* lines 304-311: catch, `this.#fetchController.abort()`, `await queueATask()`
Finally(k, err, by, t, att) ==
  /\ controllers' = AbortOf(controllers, fetchController, "AbortError")
  /\ timers' = Append(t, Task("task2", k))
  /\ attempt' = [att EXCEPT ![k].pc = "task2", ![k].error = err, ![k].settledBy = by]
  /\ requests' = {r \in requests : r.attempt # k}

\* lines 348-353: what #loadOnce makes of a fetch() rejected with e
FetchCatch(e) == IF ErrorCode(e) = ABORT_ERR THEN "" ELSE e

\* lines 290-303 and 346-349: after the first queueATask, up to `await fetch`
Task1Resume(i) ==
  /\ i \in DOMAIN timers /\ timers[i].kind = "task1" /\ CanFire(i) /\ NoMicrotask
  /\ LET k == timers[i].attempt
         t == RemoveAt(timers, i)
         signal == fetchController
         att == [attempt EXCEPT ![k].signal = signal]
     IN IF eventStreamMime(Accept)
        THEN \* #stream: new EventSource(request.src); a Request has no src.
             \* (Accept never yields an event-stream type, see the accessor.)
             /\ requests' = requests \cup
                  {[attempt |-> k, signal |-> signal,
                    url |-> ResolveURL([origin |-> "rel", path |-> "undefined"], PageURL)]}
             /\ attempt' = [att EXCEPT ![k].pc = "open"]
             /\ timers' = t
             /\ UNCHANGED controllers
        ELSE IF controllers[signal].aborted
        THEN \* fetch() with an aborted signal rejects with the signal's reason
             /\ Finally(k, FetchCatch(controllers[signal].reason), "abort", t, att)
        ELSE /\ requests' = requests \cup {[attempt |-> k, signal |-> signal, url |-> attempt[k].src]}
             /\ attempt' = [att EXCEPT ![k].pc = "fetch"]
             /\ timers' = t
             /\ UNCHANGED controllers
  /\ lastLoad' = NoLoad
  /\ events' = <<>>
  /\ UNCHANGED <<srcAttr, acceptAttr, loadingAttr, insertAttr, allow, allowAttr, connected, listening,
                 observing, states, fetchController, fetchControllerSrc, children>>

\* The continuation of an attempt whose signal was aborted while it awaited
\* fetch() or response.text(): both reject with the signal's reason, in the
\* order the requests were made; only the fetch() rejection is caught.
AbortSettle(k) ==
  /\ Rejected(k)
  /\ \A j \in Attempts : Rejected(j) => k <= j
  /\ LET e == controllers[attempt[k].signal].reason
     IN Finally(k, IF attempt[k].pc = "fetch" THEN FetchCatch(e) ELSE e, "abort", timers, attempt)
  /\ lastLoad' = NoLoad
  /\ events' = <<>>
  /\ UNCHANGED <<srcAttr, acceptAttr, loadingAttr, insertAttr, allow, allowAttr, connected, listening,
                 observing, states, fetchController, fetchControllerSrc, children>>

\* fetch() or response.text() rejects with a TypeError (transport failure)
NetworkFail(k) ==
  /\ attempt[k].pc \in {"fetch", "text"} /\ NoMicrotask
  /\ Finally(k, IF attempt[k].pc = "fetch" THEN FetchCatch("TypeError") ELSE "TypeError",
             "network", timers, attempt)
  /\ lastLoad' = NoLoad
  /\ events' = <<>>
  /\ UNCHANGED <<srcAttr, acceptAttr, loadingAttr, insertAttr, allow, allowAttr, connected, listening,
                 observing, states, fetchController, fetchControllerSrc, children>>

\* lines 362-363: capture group 1 of the first pattern that matches
CtParts(ct) ==
  IF htmlMime(ct) \/ textMime(ct) \/ xmlMime(ct) \/ svgMime(ct) THEN ct.prefix ELSE ""
AcceptParts(accept) ==
  IF htmlMime(accept) \/ xmlMime(accept) \/ svgMime(accept) THEN accept.prefix ELSE ""

\* lines 361-367
NegotiationError(ct, accept) ==
  ~wildcardMime(accept) /\ CtParts(ct) # "" /\ CtParts(ct) # AcceptParts(accept)

\* line 369
ResolvedCt(ct) ==
  IF htmlMime(ct) THEN TextHtml
  ELSE IF textMime(ct) THEN TextPlain
  ELSE IF xmlMime(ct) THEN AppXml
  ELSE IF svgMime(ct) THEN ImageSvg
  ELSE NoMime

\* lines 354-373: fetch() resolved with a response; up to `await response.text()`
ResponseHeaders(k, ct, refresh) ==
  /\ attempt[k].pc = "fetch" /\ NoMicrotask
  /\ LET t == SetupRefresh(timers, refresh)
         att == [attempt EXCEPT ![k].ct = ct, ![k].accept = Accept, ![k].header = refresh]
     IN IF NegotiationError(ct, Accept)
        THEN Finally(k, "NegotiationError", "response", t, att)
        ELSE IF ResolvedCt(ct) = NoMime
        THEN Finally(k, "ContentTypeError", "response", t, att)
        ELSE /\ attempt' = [att EXCEPT ![k].pc = "text"]
             /\ timers' = t
             /\ UNCHANGED <<controllers, requests>>
  /\ lastLoad' = NoLoad
  /\ events' = <<>>
  /\ UNCHANGED <<srcAttr, acceptAttr, loadingAttr, insertAttr, allow, allowAttr, connected, listening,
                 observing, states, fetchController, fetchControllerSrc, children>>

\* lines 394-401: append / prepend / replaceChildren
InsertNodesPrependAppends(old, nodes) ==
  IF Insert = "append" THEN old \o nodes
  ELSE IF Insert = "prepend" THEN old \o nodes
  ELSE nodes

\* lines 394-400: append, prepend or replaceChildren
InsertNodes(old, nodes) ==
  IF Insert = "append" THEN old \o nodes
  ELSE IF Insert = "prepend" THEN nodes \o old
  ELSE nodes

\* get #defaultTarget, get target (no target attribute is set)
Target == IF svgMime(Accept) THEN "svg" ELSE "body > *"

\* e.matches(selector) for the selectors of #sanitize and the type selector
\* of the default target; e is an element or the child of one.
Matches(e, selector) ==
  IF selector = "link[rel=stylesheet]" THEN e.tag = "link" /\ e.rel = <<"stylesheet">>
  ELSE e.tag = selector

\* lines 410-416: the selectors #sanitize removes
Removes ==
  (IF "iframe" \notin allow THEN {"iframe"} ELSE {})
    \cup (IF "i-html" \notin allow THEN {"i-html"} ELSE {})
    \cup (IF "script" \notin allow THEN {"script"} ELSE {})
    \cup (IF "style" \notin allow THEN {"style", "link[rel=stylesheet]"} ELSE {})
    \cup (IF "media" \notin allow THEN {"img", "picture", "video", "audio", "object"} ELSE {})

\* lines 417-420: every element matching a removed selector leaves the
\* document, with its subtree.
Sanitize(doc) ==
  LET gone(e) == \E selector \in Removes : Matches(e, selector)
      kept == SelectSeq(doc, LAMBDA e : ~gone(e))
  IN [i \in DOMAIN kept |->
        IF gone(kept[i].inner) THEN [kept[i] EXCEPT !.inner = NoElement] ELSE kept[i]]

\* doc.querySelectorAll(target), in document order.  A matched child is a
\* node of its own in the list: inserting the list moves it out of its
\* parent, next to it.
RECURSIVE QuerySelectorAll(_, _)
QuerySelectorAll(doc, target) ==
  IF doc = <<>> THEN <<>>
  ELSE LET e == Head(doc)
           child == IF e.inner # NoElement /\ Matches(e.inner, target)
                    THEN <<Element(e.inner.tag, e.inner.rel, NoElement)>> ELSE <<>>
           self == IF target = "body > *" THEN <<e>>
                   ELSE IF ~Matches(e, target) THEN <<>>
                   ELSE IF child = <<>> THEN <<e>> ELSE <<[e EXCEPT !.inner = NoElement]>>
       IN self \o child \o QuerySelectorAll(Tail(doc), target)

ShouldContinueUncancellable(notCancelled, length) == length > 0

\* line 390: dispatchEvent(beforeInsert) && children.length
ShouldContinue(notCancelled, length) == notCancelled /\ length > 0

\* line 373 and #parseAndInject: response.text() resolved.  body.doc is the
\* parsed document, body.meta the content of its refresh meta element,
\* cancel whether a listener calls preventDefault() on beforeinsert.
ResponseBody(k, body, cancel) ==
  /\ attempt[k].pc = "text" /\ NoMicrotask
  /\ LET plain == ResolvedCt(attempt[k].ct) = TextPlain
         t == IF plain THEN timers ELSE SetupRefresh(timers, body.meta)
         content == IF plain THEN <<Span>>
                    ELSE QuerySelectorAll(Sanitize(body.doc), Target)
         n == Len(content)
         nodes == [i \in 1..n |-> [attempt |-> k, index |-> i, el |-> content[i]]]
         att == [attempt EXCEPT ![k].meta = IF plain THEN NoDirective ELSE body.meta,
                                ![k].cancelled = cancel, ![k].matched = n]
         log == Dispatch(<<>>, "beforeinsert", k)
     IN /\ IF ShouldContinue(~cancel, n)
           THEN /\ children' = InsertNodes(children, nodes)
                /\ events' = Dispatch(log, "inserted", k)
           ELSE /\ children' = children
                /\ events' = log
        /\ Finally(k, "", "response", t, att)
  /\ lastLoad' = NoLoad
  /\ UNCHANGED <<srcAttr, acceptAttr, loadingAttr, insertAttr, allow, allowAttr, connected, listening,
                 observing, states, fetchController, fetchControllerSrc>>

SettledKeepsLoading(tags, failed) ==
  (tags \ {"streaming"}) \cup {IF failed THEN "error" ELSE "loaded"}

\* lines 312-314: the state tags after an attempt has settled
Settled(tags, failed) ==
  (tags \ {"loading", "streaming"}) \cup {IF failed THEN "error" ELSE "loaded"}

\* lines 312-317: after the second queueATask
Task2Resume(i) ==
  /\ i \in DOMAIN timers /\ timers[i].kind = "task2" /\ CanFire(i) /\ NoMicrotask
  /\ LET k == timers[i].attempt
         failed == attempt[k].error # ""
     IN /\ states' = Settled(states, failed)
        /\ events' = Dispatch(Dispatch(<<>>, IF failed THEN "error" ELSE "load", k),
                              "loadend", k)
        \* the async function returns: its locals are gone
        /\ attempt' = [attempt EXCEPT ![k] = [NoAttempt EXCEPT !.pc = "done"]]
        /\ timers' = RemoveAt(timers, i)
  /\ lastLoad' = NoLoad
  /\ UNCHANGED <<srcAttr, acceptAttr, loadingAttr, insertAttr, allow, allowAttr, connected, listening,
                 observing, fetchController, fetchControllerSrc, controllers, children, requests>>

(***************************************************************************)
(* Specifications.  Each one lets the environment drive a part of the      *)
(* element's interface; all share Init and the actions above.              *)
(***************************************************************************)
TimerSlots == 1..(MaxAttempts + 2)
HtmlBody == [doc |-> <<Div>>, meta |-> NoDirective]

\* Load controller: triggers, cancellation and completion of attempts.
Next ==
  \/ \E v \in {RefA, RefB, NoURL} : SetSrc(v)
  \/ \E v \in {"lazy", "eager"} : SetLoading(v)
  \/ Connect
  \/ Disconnect
  \/ CommandLoad
  \/ CommandStop
  \/ \E i \in TimerSlots : Task1Resume(i)
  \/ \E i \in TimerSlots : Task2Resume(i)
  \/ \E k \in Attempts : AbortSettle(k)
  \/ \E k \in Attempts : NetworkFail(k)
  \/ \E k \in Attempts : ResponseHeaders(k, TextHtmlUtf8, NoDirective)
  \/ \E k \in Attempts, cancel \in BOOLEAN : ResponseBody(k, HtmlBody, cancel)

Spec == Init /\ [][Next]_vars

\* Every kind of load trigger, with same-origin and cross-origin URLs.
NextTriggers ==
  \/ \E v \in {RefA, RefX} : SetSrc(v)
  \/ SetLoading("lazy")
  \/ SetAllowAttribute(<<"refresh">>)
  \/ SetAllow(<<"*">>)
  \/ Connect
  \/ CommandLoad
  \/ Intersect
  \/ \E i \in TimerSlots : RefreshFire(i)
  \/ \E i \in TimerSlots : Task1Resume(i)
  \/ \E i \in TimerSlots : Task2Resume(i)
  \/ \E k \in Attempts : AbortSettle(k)
  \/ \E k \in Attempts, refresh \in {NoDirective, [time |-> 2, url |-> RefX]} :
       ResponseHeaders(k, TextPlain, refresh)
  \/ \E k \in Attempts : ResponseBody(k, HtmlBody, FALSE)

SpecTriggers == Init /\ [][NextTriggers]_vars

\* Content negotiation and insertion.
NextNegotiation ==
  \/ SetSrc(RefA)
  \/ \E v \in AcceptValues : SetAccept(v)
  \/ \E v \in InsertValues : SetInsert(v)
  \/ Connect
  \/ Disconnect
  \/ \E i \in TimerSlots : Task1Resume(i)
  \/ \E i \in TimerSlots : Task2Resume(i)
  \/ \E k \in Attempts : AbortSettle(k)
  \/ \E k \in Attempts, ct \in ContentTypes : ResponseHeaders(k, ct, NoDirective)
  \/ \E k \in Attempts, n \in 0..MaxNodes, cancel \in BOOLEAN :
       ResponseBody(k, [doc |-> DocOf(n, Svg), meta |-> NoDirective], cancel)

SpecNegotiation == Init /\ [][NextNegotiation]_vars

\* Refresh directives of the response header and of the markup.
NextRefresh ==
  \/ SetSrc(RefA)
  \/ \E v \in {<<>>, <<"refresh">>} : SetAllow(v)
  \/ Connect
  \/ CommandStop
  \/ \E i \in TimerSlots : RefreshFire(i)
  \/ \E i \in TimerSlots : Task1Resume(i)
  \/ \E i \in TimerSlots : Task2Resume(i)
  \/ \E k \in Attempts : AbortSettle(k)
  \/ \E k \in Attempts, ct \in {TextPlain, TextHtmlUtf8, ImageSvg},
        refresh \in Directives \cup {NoDirective} : ResponseHeaders(k, ct, refresh)
  \/ \E k \in Attempts, body \in Bodies : ResponseBody(k, body, FALSE)

SpecRefresh == Init /\ [][NextRefresh]_vars

\* Insertion of the matched nodes of a response into the element.
InsertInputs == InsertValues \cup {"replace", "before"}
NextInsert ==
  \/ \E v \in {RefA, RefB} : SetSrc(v)
  \/ \E v \in InsertInputs : SetInsert(v)
  \/ Connect
  \/ \E i \in TimerSlots : Task1Resume(i)
  \/ \E i \in TimerSlots : Task2Resume(i)
  \/ \E k \in Attempts : AbortSettle(k)
  \/ \E k \in Attempts : NetworkFail(k)
  \/ \E k \in Attempts, ct \in {TextHtmlUtf8, TextPlain, TextCss} :
       ResponseHeaders(k, ct, NoDirective)
  \/ \E k \in Attempts, n \in 0..MaxNodes, cancel \in BOOLEAN :
       ResponseBody(k, [doc |-> DocOf(n, Div), meta |-> NoDirective], cancel)

SpecInsert == Init /\ [][NextInsert]_vars

\* Sanitizing of a markup response against the allow set.
SanitizedTags == {"script", "iframe", "i-html", "style", "img", "picture", "video",
                  "audio", "object"}
Kinds == [tag : SanitizedTags \cup {"div"}, rel : {<<>>}]
           \cup [tag : {"link"}, rel : {<<"icon">>, <<"stylesheet">>,
                                       <<"alternate", "stylesheet">>}]
InnerKinds == {c \in Kinds : c.tag \in {"script", "img", "link", "div"}} \cup {NoElement}
SanitizeDocs == {<<Element(e.tag, e.rel, c)>> : e \in Kinds, c \in InnerKinds}
NextSanitize ==
  \/ SetSrc(RefA)
  \/ \E v \in {<<>>, <<"script">>, <<"style", "media">>, <<"*">>} : SetAllow(v)
  \/ Connect
  \/ \E i \in TimerSlots : Task1Resume(i)
  \/ \E i \in TimerSlots : Task2Resume(i)
  \/ \E k \in Attempts : ResponseHeaders(k, TextHtmlUtf8, NoDirective)
  \/ \E k \in Attempts, doc \in SanitizeDocs :
       ResponseBody(k, [doc |-> doc, meta |-> NoDirective], FALSE)

SpecSanitize == Init /\ [][NextSanitize]_vars

\* An element that is never given a src attribute.
NextNoSrc ==
  \/ SetSrc(NoURL)
  \/ \E v \in AcceptValues : SetAccept(v)
  \/ \E v \in LoadingValues : SetLoading(v)
  \/ Connect
  \/ Disconnect
  \/ CommandLoad
  \/ CommandStop
  \/ Intersect

SpecNoSrc == Init /\ [][NextNoSrc]_vars

\* Writes to allow through the accessor and through the attribute.
AllowInputs == AllowValues \cup {<<"script", "bogus">>}
NextAllow ==
  \/ \E v \in {RefA, RefX} : SetSrc(v)
  \/ \E v \in AllowInputs : SetAllow(v)
  \/ \E v \in AllowInputs : SetAllowAttribute(v)
  \/ Connect
  \/ \E i \in TimerSlots : Task1Resume(i)
  \/ \E i \in TimerSlots : Task2Resume(i)
  \/ \E k \in Attempts : AbortSettle(k)
  \/ \E k \in Attempts : NetworkFail(k)

SpecAllow == Init /\ [][NextAllow]_vars

\* Load timing: lazy and none elements, intersections, commands, refresh.
NextLazy ==
  \/ \E v \in {RefA, RefB} : SetSrc(v)
  \/ SetAccept(Wildcard)
  \/ \E v \in {"lazy", "none"} : SetLoading(v)
  \/ SetAllow(<<"refresh">>)
  \/ Connect
  \/ CommandLoad
  \/ Intersect
  \/ \E i \in TimerSlots : RefreshFire(i)
  \/ \E i \in TimerSlots : Task1Resume(i)
  \/ \E i \in TimerSlots : Task2Resume(i)
  \/ \E k \in Attempts : AbortSettle(k)
  \/ \E k \in Attempts, refresh \in {NoDirective, [time |-> 2, url |-> NoURL]} :
       ResponseHeaders(k, TextHtmlUtf8, refresh)
  \/ \E k \in Attempts : ResponseBody(k, HtmlBody, FALSE)

SpecLazy == Init /\ [][NextLazy]_vars

(***************************************************************************)
(* Properties.                                                             *)
(***************************************************************************)
Range(s) == {s[i] : i \in DOMAIN s}
EventNames == [i \in DOMAIN events |-> events[i].name]
Tags == {"waiting", "loading", "streaming", "loaded", "error"}
Started == 1..fetchController
InFlight(k) == attempt[k].pc \in {"task1", "fetch", "text"}

\* The step takes attempt k from awaiting the network to the next stage
\* because a response (headers or body) arrived for it.
ResponseStep(k) ==
  /\ attempt[k].pc \in {"fetch", "text"}
  /\ attempt'[k].pc # attempt[k].pc
  /\ attempt'[k].settledBy \in {"", "response"}

\* Attempts 1..fetchController went to pairwise distinct same-origin URLs and
\* none of them has completed.
DistinctBatch ==
  /\ \A k \in Started : InFlight(k) /\ attempt[k].src.origin = PageURL.origin
  /\ \A j, k \in Started : j # k => attempt[j].src # attempt[k].src

\* C1: when N >= 2 loads to pairwise distinct same-origin URLs are triggered
\* before any completes, a response of an attempt other than the last-issued
\* one inserts no node, schedules no refresh and changes no state tag.
C1_StaleResponseDiscarded ==
  [][\A k \in Attempts :
       (k < fetchController /\ DistinctBatch /\ ResponseStep(k))
         => /\ children' = children
            /\ PendingRefresh(timers') = PendingRefresh(timers)
            /\ states' = states]_vars

\* C2: in every reachable state exactly one of the state tags waiting,
\* loading, streaming, loaded, error is set.
C2_ExactlyOneTag == Cardinality(states \cap Tags) = 1

\* C3: two network requests of the element whose signal is not aborted are
\* never in flight at the same moment.
C3_OneLiveRequest ==
  Cardinality({r \in requests : ~controllers[r.signal].aborted}) <= 1

\* C4: a load triggered with the resolved URL of the current, un-aborted
\* controller is a no-op: no request is issued, no attempt is started or
\* cancelled, and the state tags and the pending timers stay as they are
\* (a refresh timer that made the trigger has fired and is gone).
C4_Coalesced ==
  [][(lastLoad'.called /\ lastLoad'.src # NoURL
      /\ ~controllers[fetchController].aborted /\ fetchControllerSrc = lastLoad'.src)
     => /\ requests' = requests
        /\ attempt' = attempt
        /\ controllers' = controllers
        /\ fetchController' = fetchController
        /\ states' = states
        /\ PendingTasks(timers') = PendingTasks(timers)
        /\ (lastLoad'.via # "refresh" => timers' = timers)]_vars

\* a trigger was coalesced with the attempt that awaits its response
C4_Witness ==
  /\ lastLoad.called /\ lastLoad.src = fetchControllerSrc
  /\ fetchController > 0
  /\ attempt[fetchController].pc = "fetch"
  /\ ~controllers[fetchController].aborted

\* The last step called #load with a cross-origin URL that the allow set
\* does not permit.
PolicyViolation ==
  /\ lastLoad.called
  /\ lastLoad.src.origin \notin {PageURL.origin, NoURL.origin}
  /\ "cross-origin" \notin allow

\* C5: a load triggered with a cross-origin URL without allow=cross-origin
\* sets the state tag error and dispatches error, then loadend.
C5_PolicyErrorSurfaced ==
  PolicyViolation => "error" \in states /\ EventNames = <<"error", "loadend">>

\* C6: no network request is issued for a trigger whose resolved URL is
\* cross-origin while the allow set lacks cross-origin; such a trigger
\* starts no attempt either.
C6_NoCrossOriginRequest ==
  /\ \A r \in requests :
       r.url.origin # PageURL.origin => attempt[r.attempt].mayCrossOrigin
  /\ \A k \in Attempts :
       (attempt[k].pc = "task1" /\ attempt[k].src.origin # PageURL.origin)
         => attempt[k].mayCrossOrigin

\* a cross-origin trigger was refused while a same-origin request is in flight
C6_Witness == PolicyViolation /\ requests # {}

\* The family (plain, html, xml, svg) of a media type.
Family(m) ==
  IF textMime(m) THEN "plain"
  ELSE IF htmlMime(m) THEN "html"
  ELSE IF svgMime(m) THEN "svg"
  ELSE IF xmlMime(m) THEN "xml"
  ELSE "none"

\* The response headers of attempt k have been processed, and nothing but
\* the response has decided the attempt's outcome.
HeadersSeen(k) ==
  \/ attempt[k].pc = "text"
  \/ attempt[k].pc = "task2" /\ attempt[k].settledBy = "response"

\* C7: with a non-wildcard accept value, a response whose media type is of
\* another family than the accept value fails the load before anything is
\* inserted.
C7_FamilyMismatchFails ==
  \A k \in Attempts :
    (/\ HeadersSeen(k)
     /\ ~wildcardMime(attempt[k].accept)
     /\ Family(attempt[k].ct) # "none"
     /\ Family(attempt[k].ct) # Family(attempt[k].accept))
      => attempt[k].pc = "task2" /\ attempt[k].error # ""

\* The step is the completion (lines 312-317) of attempt k.
Completes(k) == attempt[k].pc = "task2" /\ attempt'[k].pc = "done"

\* C8: an attempt that was aborted never sets the state tag error and never
\* dispatches an error event.
C8_AbortNeverError ==
  [][\A k \in Attempts :
       (Completes(k) /\ attempt[k].settledBy = "abort")
         => /\ [name |-> "error", attempt |-> k] \notin Range(events')
            /\ ("error" \in states' => "error" \in states)]_vars

\* C9: an attempt aborted by disconnectedCallback leaves the state tags as
\* they are and dispatches neither load nor error.
C9_DisconnectKeepsTags ==
  [][\A k \in Attempts :
       (/\ Completes(k)
        /\ attempt[k].settledBy = "abort"
        /\ controllers[attempt[k].signal].reason = "disconnected")
         => /\ states' = states
            /\ \A e \in Range(events') :
                 e.attempt = k => e.name \notin {"load", "error"}]_vars

\* A refresh directive with a delay from 0 up to, not including, the ceiling.
ValidDirective(d) == d # NoDirective /\ d.time >= 0 /\ d.time < MAX_SAFE_INTEGER

\* The step inserts (or finds nothing to insert from) the body of attempt k.
BodyStep(k) ==
  /\ attempt[k].pc = "text"
  /\ attempt'[k].pc = "task2"
  /\ attempt'[k].settledBy = "response"

\* C10: when a successful response carries a valid Refresh header and its
\* body carries no directive of its own, the follow-up load that the header
\* scheduled is still pending once the body is processed if allow has
\* refresh; a response never schedules one if allow lacks refresh.
C10_HeaderRefreshScheduled ==
  [][\A k \in Attempts :
       /\ (/\ BodyStep(k)
           /\ "refresh" \in allow
           /\ ValidDirective(attempt[k].header)
           /\ RefreshTask(attempt[k].header.url, attempt[k].header.time) \in Range(timers)
           /\ attempt'[k].meta = NoDirective)
            => RefreshTask(attempt[k].header.url, attempt[k].header.time) \in Range(timers')
       /\ (ResponseStep(k) /\ "refresh" \notin allow)
            => PendingRefresh(timers') = PendingRefresh(timers)]_vars

\* The step hands a request of attempt k to the network.
Sends(k) == \E r \in requests' \ requests : r.attempt = k

\* C11: an attempt that sends a network request dispatches loadstart on the
\* element no later than the step that sends the request.
C11_LoadstartDispatched ==
  [][\A k \in Attempts :
       Sends(k) => [name |-> "loadstart", attempt |-> k] \in Range(events')]_vars

\* C16: with an event-stream accept attribute a triggered load opens an
\* event source instead of making a one-shot fetch.
C16_EventStreamTakesStreamPath ==
  [][\A k \in Attempts :
       (Sends(k) /\ eventStreamMime(acceptAttr)) => attempt'[k].pc = "open"]_vars

\* The step settles attempt k (its catch/finally block runs).
Settles(k) == attempt[k].pc \in {"task1", "fetch", "text"} /\ attempt'[k].pc = "task2"

\* C17: an attempt that settles aborts no controller but its own.
C17_CancelsOwnTokenOnly ==
  [][\A k \in Attempts :
       Settles(k) => \A c \in Controllers : c # k => controllers'[c] = controllers[c]]_vars

\* The nodes of attempt k among the element's children after the step.
NewNodes(k) == SelectSeq(children', LAMBDA node : node.attempt = k)

\* C12: when the matched nodes of a response are inserted, the children are
\* the old children followed by the nodes (insert=append), the nodes followed
\* by the old children (insert=prepend), or the nodes alone (anything else),
\* the nodes keeping their document order.
C12_InsertModes ==
  [][\A k \in Attempts :
       (BodyStep(k) /\ attempt'[k].matched > 0 /\ ~attempt'[k].cancelled) =>
         LET new == NewNodes(k)
         IN /\ Len(new) = attempt'[k].matched
            /\ \A i \in DOMAIN new : new[i].index = i
            /\ children' = IF insertAttr = "append" THEN children \o new
                           ELSE IF insertAttr = "prepend" THEN new \o children
                           ELSE new]_vars

C12_Witness ==
  /\ insertAttr = "append"
  /\ Len(children) = 4
  /\ children[1].attempt = 1 /\ children[2].attempt = 1
  /\ children[3].attempt = 2 /\ children[4].attempt = 2
  /\ [name |-> "inserted", attempt |-> 2] \in Range(events)

\* The sanitized class, named by its allow token, that element e belongs to.
InClass(e, token) ==
  \/ token \in {"script", "iframe", "i-html"} /\ e.tag = token
  \/ token = "style" /\ (e.tag = "style" \/ (e.tag = "link" /\ "stylesheet" \in Range(e.rel)))
  \/ token = "media" /\ e.tag \in {"img", "picture", "video", "audio", "object"}

\* C13: a node inserted from a markup response, and its descendants, belong
\* to no sanitized class whose token is absent from the allow set.
C13_SanitizedClassesAbsent ==
  [][\A k \in Attempts :
       BodyStep(k) =>
         \A i \in DOMAIN children' :
           children'[i].attempt = k =>
             \A e \in {children'[i].el, children'[i].el.inner},
                token \in {"script", "iframe", "i-html", "style", "media"} :
               ~(token \notin allow /\ InClass(e, token))]_vars

\* C14: when beforeinsert is cancelled or no node matches, the children stay
\* as they are, no inserted event is dispatched, and the attempt completes
\* with the tag loaded and a load event, not with error.
C14_SkippedInsertStillLoads ==
  [][\A k \in Attempts :
       LET skipped(att) == att.matched >= 0 /\ (att.cancelled \/ att.matched = 0)
       IN /\ (BodyStep(k) /\ skipped(attempt'[k])) =>
               /\ children' = children
               /\ \A i \in DOMAIN events' : events'[i].name # "inserted"
               /\ \E i \in DOMAIN timers' : timers'[i] = Task("task2", k)
          /\ (attempt[k].pc = "task2" /\ ~Completes(k)) => attempt'[k] = attempt[k]
          /\ (Completes(k) /\ skipped(attempt[k])) =>
               /\ "loaded" \in states'
               /\ ("error" \in states' => "error" \in states)
               /\ events' = <<[name |-> "load", attempt |-> k],
                             [name |-> "loadend", attempt |-> k]>>]_vars

C14_Witness ==
  \E k \in Attempts :
    /\ attempt[k].pc = "task2" /\ attempt[k].settledBy = "response"
    /\ attempt[k].cancelled /\ attempt[k].matched > 0
    /\ events = <<[name |-> "beforeinsert", attempt |-> k]>>
    /\ children = <<>>

\* C18: an attempt that settles has its completion queued; the completion
\* dispatches load or error and then loadend and nothing else, load with the
\* tag loaded and error with the tag error, in both cases without the tag
\* loading; no other step dispatches load, error or loadend.
C18_OneOutcomeThenLoadend ==
  [][/\ \A k \in Attempts :
          /\ attempt'[k].pc = "task2" => \E i \in DOMAIN timers' : timers'[i] = Task("task2", k)
          /\ Completes(k) =>
               \/ /\ events' = <<[name |-> "load", attempt |-> k],
                                 [name |-> "loadend", attempt |-> k]>>
                  /\ "loaded" \in states' /\ "loading" \notin states'
               \/ /\ events' = <<[name |-> "error", attempt |-> k],
                                 [name |-> "loadend", attempt |-> k]>>
                  /\ "error" \in states' /\ "loading" \notin states'
     /\ \A i \in DOMAIN events' :
          events'[i].name \in {"load", "error", "loadend"} => Completes(events'[i].attempt)]_vars

C18_Witness ==
  \E k \in Attempts :
    /\ events = <<[name |-> "error", attempt |-> k], [name |-> "loadend", attempt |-> k]>>
    /\ "error" \in states /\ "loading" \notin states
    /\ attempt[k].pc = "done"

\* C15: while the element has no src attribute, a #load() call without a URL
\* changes neither the state tags nor the attempts, requests, timers or
\* controller; after every step of an element that has no src and on which
\* no attempt ever started, the only tag is waiting and there is no request.
C15_NoSrcNoLoad ==
  [][/\ (srcAttr' = NoURL /\ fetchController' = 0) =>
          /\ states' = {"waiting"} /\ requests' = {}
          /\ \A k \in Attempts : attempt'[k].pc = "none"
     /\ (srcAttr' = NoURL /\ lastLoad'.called /\ lastLoad'.via # "refresh") =>
          /\ lastLoad'.src = NoURL
          /\ UNCHANGED <<states, requests, attempt, timers, fetchController, controllers>>]_vars

C15_Witness ==
  /\ srcAttr = NoURL
  /\ connected /\ Loading(loadingAttr) = "lazy"
  /\ lastLoad.called /\ lastLoad.via = "lazy"
  /\ states = {"waiting"} /\ requests = {}

\* C19: the cached allow set is the parse of the current allow attribute:
\* all valid tokens for "*", otherwise the attribute's tokens that are valid.
C19_AllowCacheMatchesAttribute ==
  allow = IF allowAttr = <<"*">> THEN validAllow ELSE Range(allowAttr) \cap validAllow

\* The step starts a load attempt (a new controller is installed).
LoadStarts == fetchController' # fetchController

\* A change of src or accept on an element whose loading is lazy or none
\* starts no attempt and aborts the current controller and every request in
\* flight.
NonEagerChangeAborts ==
  (loadingAttr \in {"lazy", "none"} /\ (srcAttr' # srcAttr \/ acceptAttr' # acceptAttr)) =>
    /\ ~LoadStarts
    /\ controllers'[fetchController].aborted
    /\ \A r \in requests : controllers'[r.signal].aborted

\* C20 as stated: with loading lazy the element's first attempt is started
\* only by an intersection, and with loading none an attempt is started only
\* by a --load command or the refresh timer; a src/accept change aborts.
C20_LazyOnlyByIntersection ==
  [][/\ (loadingAttr' = "lazy" /\ LoadStarts /\ fetchController = 0) =>
          lastLoad'.via = "lazy"
     /\ (loadingAttr' = "none" /\ LoadStarts) => lastLoad'.via \in {"command", "refresh"}
     /\ NonEagerChangeAborts]_vars

\* C20 (amended): while loading is lazy or none, an attempt is started only
\* by a --load command, the refresh timer or, with loading lazy, an
\* intersection of the observed anchor, which ends the observation; a
\* src/accept change starts none and aborts.
C20_NonEagerTriggers ==
  [][/\ (loadingAttr' \in {"lazy", "none"} /\ LoadStarts) =>
          /\ lastLoad'.via \in {"lazy", "command", "refresh"}
          /\ lastLoad'.via = "lazy" => (loadingAttr = "lazy" /\ observing /\ ~observing')
     /\ NonEagerChangeAborts]_vars

C20_Witness ==
  /\ loadingAttr = "lazy" /\ connected
  /\ lastLoad.called /\ lastLoad.via = "lazy" /\ ~observing
  /\ fetchController = 1 /\ attempt[1].pc = "task1"

====
